---- MODULE Spec2Model ----
(***************************************************************************)
(* A model of src/script.js: the load handler localizeIsoStrings walks the *)
(* DOM below document.body, splits every text node on the iso8601 pattern  *)
(* and replaces it by plain text nodes and marker spans whose visible text *)
(* is produced by localIso8601String.                                      *)
(*                                                                         *)
(* Strings are sequences of one-character strings.  Positions in the       *)
(* regular-expression operators are 1-based; an "end" position is the      *)
(* position just after the last matched character, 0 meaning "no match".   *)
(***************************************************************************)
EXTENDS Integers, Sequences, FiniteSets, TLC

(***************************************************************************)
(* Characters                                                              *)
(***************************************************************************)
Digit == {"0", "1", "2", "3", "4", "5", "6", "7", "8", "9"}

DigitChars == <<"0", "1", "2", "3", "4", "5", "6", "7", "8", "9">>

\* numeric value of a decimal digit character
DigitVal(c) == (CHOOSE i \in 1..10 : DigitChars[i] = c) - 1

\* s[i..j) as a string, positions 1-based, j exclusive (String.substring)
Substring(s, i, j) == SubSeq(s, i, j - 1)

RECURSIVE Concat(_)
\* Array.prototype.join("") of a sequence of strings
Concat(ss) == IF ss = <<>> THEN <<>> ELSE Head(ss) \o Concat(Tail(ss))

(***************************************************************************)
(* The pattern /(\d{4}-\d{2}-\d{2}[:.T\d]*Z)/ of localizeIsoStrings.       *)
(* class: the characters of the bracket expression; global: the g flag.    *)
(***************************************************************************)
iso8601Dash == [class |-> {"-", ":", ".", "T"} \cup Digit, global |-> FALSE]

iso8601 == [class |-> {":", ".", "T"} \cup Digit, global |-> FALSE]

\* the pattern /(\d{4}-\d{2}-\d{2}[-:.T\d]*Z)/g that process, the earlier
\* walker of unnamed/part_000, makes in each of its calls
iso8601Process == [class |-> {"-", ":", ".", "T"} \cup Digit, global |-> TRUE]

\* \d{4}-\d{2}-\d{2} matched at position q of s
DatePartAt(s, q) ==
    /\ q + 9 <= Len(s)
    /\ \A k \in {0, 1, 2, 3, 5, 6, 8, 9} : s[q + k] \in Digit
    /\ s[q + 4] = "-"
    /\ s[q + 7] = "-"

RECURSIVE GreedyRun(_, _, _)
\* [class]* : the number of characters the greedy quantifier takes from i on
GreedyRun(re, s, i) ==
    IF i <= Len(s) /\ s[i] \in re.class THEN 1 + GreedyRun(re, s, i + 1) ELSE 0

RECURSIVE BacktrackZ(_, _, _)
\* the quantifier gives characters back, longest run first, until Z follows
BacktrackZ(s, start, k) ==
    IF start + k <= Len(s) /\ s[start + k] = "Z" THEN start + k + 1
    ELSE IF k = 0 THEN 0
    ELSE BacktrackZ(s, start, k - 1)

\* the pattern matched at exactly position q (a sticky match): its end, or 0
MatchEnd(re, s, q) ==
    IF DatePartAt(s, q)
    THEN BacktrackZ(s, q + 10, GreedyRun(re, s, q + 10))
    ELSE 0

RECURSIVE SearchFrom(_, _, _)
\* the first position >= i at which the pattern matches, or 0
SearchFrom(re, s, i) ==
    IF i > Len(s) THEN 0
    ELSE IF MatchEnd(re, s, i) # 0 THEN i
    ELSE SearchFrom(re, s, i + 1)

\* a test that fails leaves lastIndex where it was
RegExpExecNoReset(re, s, lastIndex) ==
    LET from == IF re.global THEN lastIndex + 1 ELSE 1
        at == SearchFrom(re, s, from)
    IN  IF at = 0 THEN <<FALSE, lastIndex>>
        ELSE <<TRUE, IF re.global THEN MatchEnd(re, s, at) - 1 ELSE lastIndex>>

\* re.test(s), that is RegExp.prototype.exec as far as test needs it:
\* lastIndex is read and written only under the g flag; the result is
\* <<found, new lastIndex>>
RegExpExec(re, s, lastIndex) ==
    LET from == IF re.global THEN lastIndex + 1 ELSE 1
        at == SearchFrom(re, s, from)
    IN  IF at = 0 THEN <<FALSE, IF re.global THEN 0 ELSE lastIndex>>
        ELSE <<TRUE, IF re.global THEN MatchEnd(re, s, at) - 1 ELSE lastIndex>>

RECURSIVE SplitLoop(_, _, _, _, _)
\* the loop of RegExp.prototype[Symbol.split]: p is the end of the last
\* separator, q the position tried next, A the segments so far; a match
\* appends the literal s[p..q) and then the capture group
SplitLoop(re, s, p, q, A) ==
    IF q > Len(s) THEN Append(A, Substring(s, p, Len(s) + 1))
    ELSE LET e == MatchEnd(re, s, q)
         IN  IF e = 0 \/ e = p THEN SplitLoop(re, s, p, q + 1, A)
             ELSE SplitLoop(re, s, e, e,
                            A \o <<Substring(s, p, q), Substring(s, q, e)>>)

\* only the first separator is found (what String.replace-like single
\* matching would give)
SplitFirstOnly(re, s) ==
    LET at == SearchFrom(re, s, 1)
    IN  IF at = 0 THEN <<s>>
        ELSE <<Substring(s, 1, at), Substring(s, at, MatchEnd(re, s, at)),
               Substring(s, MatchEnd(re, s, at), Len(s) + 1)>>

\* the separators are dropped (a pattern without its capture group)
SplitDropSeparators(re, s) ==
    IF Len(s) = 0 THEN <<s>>
    ELSE [k \in 1..((Len(SplitLoop(re, s, 1, 1, <<>>)) + 1) \div 2) |->
             SplitLoop(re, s, 1, 1, <<>>)[2 * k - 1]]

\* child.textContent.split(re)
Split(re, s) == IF Len(s) = 0 THEN <<s>> ELSE SplitLoop(re, s, 1, 1, <<>>)


(***************************************************************************)
(* State                                                                   *)
(***************************************************************************)
VARIABLES
    dom,        \* the node objects ever created, by identity 1..Len(dom)
    body,       \* document.body: a node identity, or Null
    timeZone,   \* the reader's UTC offset in minutes (the Intl default zone)
    lenient,    \* whether the engine's Date parser accepts what lies outside
                \* the ECMAScript date-time string format
    stack,      \* the active nodeWalker calls: <<[node, index]>>, top first
    pc,         \* "idle", "walking", "done" or "thrown"
    error,      \* the exception that left localizeIsoStrings, or "none"
    lastIndex,  \* iso8601.lastIndex
    runs,       \* how many times localizeIsoStrings has been called
    visits,     \* how often each node was the loop's child or the root
    last,       \* the text node the loop body ran on last: what replaced
                \* it, or that the renderer raised
    snapshot    \* the rendering of the tree when the first call ended

vars == <<dom, body, timeZone, lenient, stack, pc, error, lastIndex, runs,
          visits, last, snapshot>>

Null == 0

(***************************************************************************)
(* new Date(dateTime): Date.parse, then the civil calendar.                *)
(***************************************************************************)
\* the value of the digits s[i..j]
RECURSIVE ToNumber(_, _, _)
ToNumber(s, i, j) ==
    IF j < i THEN 0 ELSE 10 * ToNumber(s, i, j - 1) + DigitVal(s[j])

IsLeapYear(y) == (y % 4 = 0 /\ y % 100 # 0) \/ y % 400 = 0

DaysInMonth(y, m) ==
    IF m = 2 THEN (IF IsLeapYear(y) THEN 29 ELSE 28)
    ELSE IF m \in {4, 6, 9, 11} THEN 30 ELSE 31

\* MakeDay: days since 1970-01-01 of the civil date y-m-d
DaysFromCivil(y, m, d) ==
    LET yy  == IF m <= 2 THEN y - 1 ELSE y
        era == yy \div 400
        yoe == yy - era * 400
        mp  == IF m > 2 THEN m - 3 ELSE m + 9
        doy == (153 * mp + 2) \div 5 + d - 1
        doe == yoe * 365 + yoe \div 4 - yoe \div 100 + doy
    IN  era * 146097 + doe - 719468

\* the civil date of day doy (counted from March 1) of year yoe of an era
CivilOfDayOfYear(era, yoe, doy) ==
    LET mp == (5 * doy + 2) \div 153
        m  == IF mp < 10 THEN mp + 3 ELSE mp - 9
    IN  [year |-> yoe + era * 400 + (IF m <= 2 THEN 1 ELSE 0),
         month |-> m,
         day |-> doy - (153 * mp + 2) \div 5 + 1]

\* the civil date of day doe of a 400-year era, yoe being its year in the era
CivilOfYearOfEra(era, doe, yoe) ==
    CivilOfDayOfYear(era, yoe, doe - (365 * yoe + yoe \div 4 - yoe \div 100))

\* the civil date of day doe of a 400-year era
CivilOfDayOfEra(era, doe) ==
    CivilOfYearOfEra(era, doe,
        (doe - doe \div 1460 + doe \div 36524 - doe \div 146096) \div 365)

\* the civil date of day z counted from 0000-03-01
CivilOfShifted(z) ==
    CivilOfDayOfEra(z \div 146097, z - (z \div 146097) * 146097)

\* YearFromTime, MonthFromTime, DateFromTime of a day number
CivilFromDays(days) == CivilOfShifted(days + 719468)

\* the time fields of a run "THH:mm", "THH:mm:ss" or "THH:mm:ss.sss" (the
\* part of a match between the date and the Z), or ok = FALSE for a run
\* that is not of the date-time string format
TimeOfRun(r) ==
    LET n == Len(r)
        dig(i) == r[i] \in Digit
        hm == /\ n \in {6, 9, 13}
              /\ r[1] = "T" /\ dig(2) /\ dig(3) /\ r[4] = ":" /\ dig(5) /\ dig(6)
        sec == n >= 9 => (r[7] = ":" /\ dig(8) /\ dig(9))
        frac == n = 13 => (r[10] = "." /\ dig(11) /\ dig(12) /\ dig(13))
    IN  IF hm /\ sec /\ frac
        THEN [ok |-> TRUE, h |-> ToNumber(r, 2, 3), mi |-> ToNumber(r, 5, 6),
              s |-> IF n >= 9 THEN ToNumber(r, 8, 9) ELSE 0]
        ELSE [ok |-> FALSE, h |-> 0, mi |-> 0, s |-> 0]

NaN == [valid |-> FALSE, t |-> 0]

\* the time value of the fields y-m-d and tm.  A string of the date-time
\* string format with an illegal element value is NaN.  What the format
\* does not cover (no time, another run, a day past the end of its month)
\* is left to the engine: the lenient one reads on (the date alone, the day
\* carried into the next month), the strict one gives NaN.
TimeValue(y, m, d, tm) ==
    LET dateLegal == m \in 1..12 /\ d \in 1..31
        timeLegal == \/ tm.h \in 0..23 /\ tm.mi \in 0..59 /\ tm.s \in 0..59
                     \/ tm.h = 24 /\ tm.mi = 0 /\ tm.s = 0
        strictOk == tm.ok /\ d <= DaysInMonth(y, m)
    IN  IF ~dateLegal \/ (tm.ok /\ ~timeLegal) THEN NaN
        ELSE IF ~strictOk /\ ~lenient THEN NaN
        ELSE [valid |-> TRUE,
              t |-> (DaysFromCivil(y, m, 1) + (d - 1)) * 86400
                    + tm.h * 3600 + tm.mi * 60 + tm.s]

\* new Date(dateTime), in seconds since the epoch: a string that is not a
\* date, a run and a Z is NaN
DateParse(dateTime) ==
    IF DatePartAt(dateTime, 1) /\ dateTime[Len(dateTime)] = "Z"
    THEN TimeValue(ToNumber(dateTime, 1, 4), ToNumber(dateTime, 6, 7),
                   ToNumber(dateTime, 9, 10),
                   TimeOfRun(Substring(dateTime, 11, Len(dateTime))))
    ELSE NaN

(***************************************************************************)
(* Intl.DateTimeFormat("en-US", ...).formatToParts                         *)
(***************************************************************************)
RECURSIVE Decimal(_)
\* the decimal digits of a natural number
Decimal(n) ==
    IF n < 10 THEN <<DigitChars[n + 1]>>
    ELSE Append(Decimal(n \div 10), DigitChars[(n % 10) + 1])

\* a "2-digit" field
TwoDigit(n) == IF n < 10 THEN <<"0">> \o Decimal(n) ELSE Decimal(n % 100)

\* timeZoneName: "longOffset" in en-US: GMT, GMT-08:00, GMT+05:30
LongOffset(offset) ==
    LET a == IF offset < 0 THEN -offset ELSE offset
    IN  IF offset = 0 THEN <<"G", "M", "T">>
        ELSE <<"G", "M", "T">> \o <<IF offset < 0 THEN "-" ELSE "+">>
             \o TwoDigit(a \div 60) \o <<":">> \o TwoDigit(a % 60)

\* the parts of the civil date c and the second sod of that day; en-US has
\* a 12-hour clock, so hour runs 01..12 and a dayPeriod part comes with it
PartsOf(c, sod) ==
    [year |-> Decimal(c.year),
     month |-> TwoDigit(c.month),
     day |-> TwoDigit(c.day),
     hour |-> TwoDigit((((sod \div 3600) + 11) % 12) + 1),
     minute |-> TwoDigit((sod \div 60) % 60),
     second |-> TwoDigit(sod % 60),
     dayPeriod |-> IF sod \div 3600 < 12 THEN <<"A", "M">> ELSE <<"P", "M">>,
     timeZoneName |-> LongOffset(timeZone)]

\* the parts of the local time loc (seconds)
PartsOfLocal(loc) ==
    PartsOf(CivilFromDays(loc \div 86400), loc - (loc \div 86400) * 86400)

\* idtf.formatToParts(date) for the instant t (seconds) in the reader's zone
FormatToParts(t) == PartsOfLocal(t + timeZone * 60)

OffsetChars == {"-", "+", ":"} \cup Digit

RECURSIVE RunOutside(_, _)
\* the length of the run of characters outside [-+:\d] that starts at i
RunOutside(s, i) ==
    IF i <= Len(s) /\ s[i] \notin OffsetChars THEN 1 + RunOutside(s, i + 1)
    ELSE 0

RECURSIVE FirstOutside(_, _)
\* the first position >= i of a character outside [-+:\d], or 0
FirstOutside(s, i) ==
    IF i > Len(s) THEN 0
    ELSE IF s[i] \notin OffsetChars THEN i
    ELSE FirstOutside(s, i + 1)

\* s without its characters from position at up to the end of their run
CutRun(s, at) ==
    IF at = 0 THEN s
    ELSE Substring(s, 1, at) \o Substring(s, at + RunOutside(s, at), Len(s) + 1)

\* .replace(/[^-+:\d]+/, ""): the first such run is removed
StripZoneName(s) == CutRun(s, FirstOutside(s, 1))

\* [year, "-", month, "-", day, "T", hour, ":", minute, ":", second,
\*  zone].join("") of the parts mf
JoinParts(mf) ==
    mf.year \o <<"-">> \o mf.month \o <<"-">> \o mf.day \o <<"T">> \o mf.hour
    \o <<":">> \o mf.minute \o <<":">> \o mf.second
    \o StripZoneName(mf.timeZoneName)

\* the renderer applied to a Date: threw = TRUE stands for the RangeError
\* that formatToParts raises for an invalid Date
RenderDate(date) ==
    IF ~date.valid THEN [threw |-> TRUE, value |-> <<>>]
    ELSE [threw |-> FALSE, value |-> JoinParts(FormatToParts(date.t))]

\* the renderer
localIso8601String(dateTime) == RenderDate(DateParse(dateTime))

(***************************************************************************)
(* The DOM                                                                 *)
(***************************************************************************)
\* document.createTextNode(data)
TextNode(data, isNew) ==
    [nodeType |-> "TEXT", data |-> data, title |-> <<>>, classList |-> {},
     childNodes |-> <<>>, created |-> isNew]

\* an element with the given children
ElementNode(kids, isNew) ==
    [nodeType |-> "ELEMENT", data |-> <<>>, title |-> <<>>, classList |-> {},
     childNodes |-> kids, created |-> isNew]

\* a comment: a node that is neither element nor text
CommentNode ==
    [nodeType |-> "COMMENT", data |-> <<>>, title |-> <<>>, classList |-> {},
     childNodes |-> <<>>, created |-> FALSE]

RECURSIVE TextContent(_, _)
\* node.textContent in the node store d
TextContent(d, id) ==
    IF d[id].nodeType = "TEXT" THEN d[id].data
    ELSE IF d[id].nodeType = "COMMENT" THEN <<>>
    ELSE Concat([k \in 1..Len(d[id].childNodes) |->
                    TextContent(d, d[id].childNodes[k])])

RECURSIVE Descendants(_, _)
\* the nodes of the tree below and including id
Descendants(d, id) ==
    {id} \cup UNION {Descendants(d, d[id].childNodes[k]) :
                        k \in 1..Len(d[id].childNodes)}

\* the nodes that are in the document
InTree == IF body = Null THEN {} ELSE Descendants(dom, body)

MarkerClasses == {"date", "localize-iso8601-string"}

IsMarker(n) == n.nodeType = "ELEMENT" /\ n.classList = MarkerClasses

\* the span a renderer result r is wrapped in: threw when the renderer
\* raised; else the nodes created, the span getting identity id;
\* span.textContent = v gives the span one text child, none when v is empty
SpanFor(isoString, r, id) ==
    IF r.threw THEN [threw |-> TRUE, nodes |-> <<>>]
    ELSE [threw |-> FALSE,
          nodes |->
            IF Len(r.value) = 0
            THEN <<[ElementNode(<<>>, TRUE) EXCEPT
                       !.classList = MarkerClasses, !.title = isoString]>>
            ELSE <<[ElementNode(<<id + 1>>, TRUE) EXCEPT
                       !.classList = MarkerClasses, !.title = isoString],
                   TextNode(r.value, TRUE)>>]

\* the span shows the match and keeps the renderer's output as its title
wrapIsoStringSwapped(isoString, id) ==
    SpanFor(localIso8601String(isoString).value,
            [threw |-> localIso8601String(isoString).threw,
             value |-> isoString], id)

\* wrapIsoString(isoString, localIso8601String)
wrapIsoString(isoString, id) ==
    SpanFor(isoString, localIso8601String(isoString), id)

RECURSIVE MapSegments(_, _, _, _)

\* the map callback's result w for segment k is added to acc, and the map
\* goes on; a callback that raised ends the map
MapNext(re, segments, k, acc, li, w) ==
    IF w.threw THEN [acc EXCEPT !.threw = TRUE, !.lastIndex = li]
    ELSE MapSegments(re, segments, k + 1,
            [acc EXCEPT !.nodes = @ \o w.nodes,
                        !.tops = Append(@, Len(dom) + Len(acc.nodes) + 1),
                        !.lastIndex = li])

\* the callback for a segment on which re.test gave t; the call is recorded
\* in acc.tests with the lastIndex it started from
MapOne(re, segments, k, acc, t) ==
    MapNext(re, segments, k,
            [acc EXCEPT !.tests = Append(@, [at |-> acc.lastIndex,
                                             found |-> t[1]])],
            t[2],
            IF t[1]
            THEN wrapIsoString(segments[k], Len(dom) + Len(acc.nodes) + 1)
            ELSE [threw |-> FALSE, nodes |-> <<TextNode(segments[k], TRUE)>>])

\* .map((segment) => re.test(segment) ? wrapIsoString(...) :
\* createTextNode(segment)) over the segments from k on.  acc collects
\* nodes: the node records created so far, tops: the identities of the
\* mapped nodes, lastIndex: the pattern's lastIndex, threw: the renderer
\* raised (the map stops there), tests: the re.test calls made so far
MapSegments(re, segments, k, acc) ==
    IF k > Len(segments) THEN acc
    ELSE MapOne(re, segments, k, acc,
                RegExpExec(re, segments[k], acc.lastIndex))

\* the map before its first segment, the pattern's lastIndex being li
MapStart(li) ==
    [nodes |-> <<>>, tops |-> <<>>, lastIndex |-> li, threw |-> FALSE,
     tests |-> <<>>]

\* every mapped node is kept
FilterNothing(d, tops) == tops

RECURSIVE FilterNonEmpty(_, _)
\* .filter((i) => i.textContent.length > 0)
FilterNonEmpty(d, tops) ==
    IF tops = <<>> THEN <<>>
    ELSE (IF Len(TextContent(d, Head(tops))) > 0 THEN <<Head(tops)>> ELSE <<>>)
         \o FilterNonEmpty(d, Tail(tops))

\* the nodes are put before the child, which stays in the list
ReplaceWithKeep(childNodes, at, nodes) ==
    SubSeq(childNodes, 1, at - 1) \o nodes
    \o SubSeq(childNodes, at, Len(childNodes))

\* child.replaceWith(df): the nodes take the place of the child at position
\* at (1-based) of the child list
ReplaceWith(childNodes, at, nodes) ==
    SubSeq(childNodes, 1, at - 1) \o nodes
    \o SubSeq(childNodes, at + 1, Len(childNodes))

(***************************************************************************)
(* The documents and readers the handler is run on                         *)
(***************************************************************************)
MaxChildren == 2    \* children of document.body
MaxRuns == 2        \* calls of localizeIsoStrings

TS1 == <<"2", "0", "2", "4", "-", "0", "2", "-", "0", "8", "T",
         "2", "0", ":", "0", "3", ":", "1", "4", "Z">>
TS2 == <<"2", "0", "2", "4", "-", "0", "2", "-", "0", "9", "T",
         "0", "4", ":", "1", "6", ":", "5", "6", "Z">>
\* month 99: the pattern matches, no instant is denoted
BadMonth == <<"2", "0", "2", "4", "-", "9", "9", "-", "0", "8", "T",
              "2", "0", ":", "0", "3", ":", "1", "4", "Z">>
\* a date, no time, Z
DateOnlyZ == <<"2", "0", "2", "4", "-", "0", "2", "-", "0", "8", "Z">>
\* a '-' between the date and the Z
DashRun == <<"2", "0", "2", "4", "-", "0", "2", "-", "0", "8", "-",
             "1", "2", "Z">>
TwoStamps == <<"a">> \o TS1 \o <<"b">> \o TS2 \o <<"c">>

Texts == {<<>>, <<"a">>, TS1, TwoStamps, BadMonth, DateOnlyZ, DashRun}

\* the child lists of the elements below document.body
ElementKids == {<<>>, <<TS1>>, <<<<>>, TS1>>, <<TS1 \o <<"b">>>>}

TimeZones == {-480, 0, 330}

\* what a child of document.body can be
ChildSpecs ==
    [kind : {"TEXT"}, data : Texts, kids : {<<>>}]
    \cup [kind : {"COMMENT"}, data : {<<>>}, kids : {<<>>}]
    \cup [kind : {"ELEMENT"}, data : {<<>>}, kids : ElementKids]

BodySpecs == UNION {[1..n -> ChildSpecs] : n \in 0..MaxChildren}

RECURSIVE KidsBefore(_, _)
\* how many grandchildren the children before position i have
KidsBefore(top, i) ==
    IF i <= 1 THEN 0 ELSE KidsBefore(top, i - 1) + Len(top[i - 1].kids)

\* the node store of the document whose body has the children top: the body
\* is node 1, its children are 2..n+1, the grandchildren follow
BuildDom(top) ==
    LET n == Len(top)
        kidIds(i) == [k \in 1..Len(top[i].kids) |->
                          n + 1 + KidsBefore(top, i) + k]
        child(i) == IF top[i].kind = "TEXT" THEN TextNode(top[i].data, FALSE)
                    ELSE IF top[i].kind = "COMMENT" THEN CommentNode
                    ELSE ElementNode(kidIds(i), FALSE)
        grand(i) == [k \in 1..Len(top[i].kids) |->
                          TextNode(top[i].kids[k], FALSE)]
    IN  <<ElementNode([i \in 1..n |-> i + 1], FALSE)>>
        \o [i \in 1..n |-> child(i)]
        \o Concat([i \in 1..n |-> grand(i)])

RECURSIVE Serialize(_, _)

RECURSIVE SerializeAll(_, _)
\* what an observer sees of the nodes ids, in order; a text node without
\* text shows nothing
SerializeAll(d, ids) ==
    IF ids = <<>> THEN <<>>
    ELSE (IF d[Head(ids)].nodeType = "TEXT" /\ d[Head(ids)].data = <<>>
          THEN <<>> ELSE <<Serialize(d, Head(ids))>>)
         \o SerializeAll(d, Tail(ids))

\* what an observer sees of the tree below id: kinds, text, classes, titles
Serialize(d, id) ==
    [kind |-> d[id].nodeType, data |-> d[id].data, title |-> d[id].title,
     classList |-> d[id].classList, kids |-> SerializeAll(d, d[id].childNodes)]

NoReplacement ==
    [orig |-> Null, repl |-> <<>>, threw |-> FALSE, tests |-> <<>>]

Init ==
    /\ \/ body = 1 /\ \E top \in BodySpecs : dom = BuildDom(top)
       \/ body = Null /\ dom = <<>>
    /\ timeZone \in TimeZones
    /\ lenient \in BOOLEAN
    /\ stack = <<>>
    /\ pc = "idle"
    /\ error = "none"
    /\ lastIndex = 0
    /\ runs = 0
    /\ visits = [i \in 1..Len(dom) |-> 0]
    /\ last = NoReplacement
    /\ snapshot = <<>>

(***************************************************************************)
(* localizeIsoStrings and nodeWalker                                       *)
(***************************************************************************)
\* call number n of localizeIsoStrings ends with the tree d: the first
\* call's result is remembered
Ended(d, n) ==
    snapshot' = IF n = 1 /\ body # Null THEN <<Serialize(d, body)>>
                ELSE snapshot

\* window's load listener: localizeIsoStrings(_event) makes the pattern and
\* calls nodeWalker(document.body, iso8601); a null body makes
\* node.hasChildNodes() raise a TypeError, a body without children returns
localizeIsoStrings ==
    /\ pc \in {"idle", "done", "thrown"}
    /\ runs < MaxRuns
    /\ runs' = runs + 1
    /\ lastIndex' = 0
    /\ last' = NoReplacement
    /\ UNCHANGED <<dom, body, timeZone, lenient>>
    /\ IF body = Null
       THEN /\ pc' = "thrown"
            /\ error' = "TypeError"
            /\ stack' = <<>>
            /\ UNCHANGED visits
       ELSE /\ error' = "none"
            /\ visits' = [visits EXCEPT ![body] = @ + 1]
            /\ IF Len(dom[body].childNodes) = 0
               THEN pc' = "done" /\ stack' = <<>>
               ELSE pc' = "walking" /\ stack' = <<[node |-> body, index |-> 0]>>
    /\ IF pc' = "walking" THEN UNCHANGED snapshot ELSE Ended(dom, runs + 1)

\* the frame of the running nodeWalker call and the child its loop is at
Top == Head(stack)
Children == dom[Top.node].childNodes
Child == Children[Top.index + 1]

\* the for...of loop finds no child at its index: nodeWalker returns
LoopEnd ==
    /\ pc = "walking"
    /\ Top.index >= Len(Children)
    /\ stack' = Tail(stack)
    /\ pc' = IF Tail(stack) = <<>> THEN "done" ELSE "walking"
    /\ UNCHANGED <<dom, body, timeZone, lenient, error, lastIndex, runs,
                   visits, last>>
    /\ IF pc' = "done" THEN Ended(dom, runs) ELSE UNCHANGED snapshot

\* the child is an element: nodeWalker(child, re), which returns at once
\* when the child has no children; then the loop continues
VisitElement ==
    /\ pc = "walking"
    /\ Top.index < Len(Children)
    /\ dom[Child].nodeType = "ELEMENT"
    /\ visits' = [visits EXCEPT ![Child] = @ + 1]
    /\ stack' = (IF Len(dom[Child].childNodes) = 0 THEN <<>>
                 ELSE <<[node |-> Child, index |-> 0]>>)
                \o <<[Top EXCEPT !.index = @ + 1]>> \o Tail(stack)
    /\ UNCHANGED <<dom, body, timeZone, lenient, pc, error, lastIndex, runs,
                   last, snapshot>>

\* the child is neither an element nor a text node: continue
VisitOther ==
    /\ pc = "walking"
    /\ Top.index < Len(Children)
    /\ dom[Child].nodeType \notin {"ELEMENT", "TEXT"}
    /\ visits' = [visits EXCEPT ![Child] = @ + 1]
    /\ stack' = <<[Top EXCEPT !.index = @ + 1]>> \o Tail(stack)
    /\ UNCHANGED <<dom, body, timeZone, lenient, pc, error, lastIndex, runs,
                   last, snapshot>>

\* the rest of the loop body once the map gave m: store is the node store
\* with the nodes the map created, nodes what the filter keeps
Replace(m, store, nodes) ==
    /\ lastIndex' = m.lastIndex
    /\ visits' = [i \in 1..Len(store) |->
                    IF i = Child THEN visits[i] + 1
                    ELSE IF i <= Len(dom) THEN visits[i] ELSE 0]
    /\ IF m.threw
       THEN /\ pc' = "thrown"
            /\ error' = "RangeError"
            /\ stack' = <<>>
            /\ dom' = store
            /\ last' = [orig |-> Child, repl |-> <<>>, threw |-> TRUE,
                        tests |-> m.tests]
            /\ Ended(store, runs)
       ELSE /\ dom' = [store EXCEPT ![Top.node].childNodes =
                          ReplaceWith(@, Top.index + 1, nodes)]
            /\ last' = [orig |-> Child, repl |-> nodes, threw |-> FALSE,
                        tests |-> m.tests]
            /\ stack' = <<[Top EXCEPT !.index = @ + 1]>> \o Tail(stack)
            /\ UNCHANGED <<pc, error, snapshot>>

\* the loop body from the filter on
FilterAndReplace(m) ==
    Replace(m, dom \o m.nodes, FilterNonEmpty(dom \o m.nodes, m.tops))

\* the child is a text node: split, map, filter, replaceWith.  A renderer
\* that raises ends the whole call before anything is replaced.
VisitText ==
    /\ pc = "walking"
    /\ Top.index < Len(Children)
    /\ dom[Child].nodeType = "TEXT"
    /\ FilterAndReplace(
          MapSegments(iso8601, Split(iso8601, dom[Child].data), 1,
                      MapStart(lastIndex)))
    /\ UNCHANGED <<body, timeZone, lenient, runs>>

Next ==
    \/ localizeIsoStrings
    \/ LoopEnd
    \/ VisitElement
    \/ VisitOther
    \/ VisitText

Spec == Init /\ [][Next]_vars

(***************************************************************************)
(* The earlier localizeIsoStrings of unnamed/part_000: process(document),  *)
(* where every call of process that gets past hasChildNodes makes its own  *)
(* pattern object with the g flag.  The root of the walk is never null.    *)
(* lastIndex is the lastIndex of the running call's pattern; a frame keeps *)
(* in outer the lastIndex of its caller's pattern.                         *)
(***************************************************************************)
InitProcess == Init /\ body # Null

\* localizeIsoStrings(_event): process(document)
processDocument ==
    /\ pc \in {"idle", "done", "thrown"}
    /\ runs < MaxRuns
    /\ runs' = runs + 1
    /\ lastIndex' = 0
    /\ last' = NoReplacement
    /\ error' = "none"
    /\ visits' = [visits EXCEPT ![body] = @ + 1]
    /\ IF Len(dom[body].childNodes) = 0
       THEN pc' = "done" /\ stack' = <<>> /\ Ended(dom, runs + 1)
       ELSE /\ pc' = "walking"
            /\ stack' = <<[node |-> body, index |-> 0, outer |-> 0]>>
            /\ UNCHANGED snapshot
    /\ UNCHANGED <<dom, body, timeZone, lenient>>

\* the for...of loop of process finds no child at its index: process
\* returns and its pattern object is dropped
processEnd ==
    /\ pc = "walking"
    /\ Top.index >= Len(Children)
    /\ stack' = Tail(stack)
    /\ lastIndex' = Top.outer
    /\ pc' = IF Tail(stack) = <<>> THEN "done" ELSE "walking"
    /\ UNCHANGED <<dom, body, timeZone, lenient, error, runs, visits, last>>
    /\ IF pc' = "done" THEN Ended(dom, runs) ELSE UNCHANGED snapshot

\* the child is not a text node: process(child), which returns at once
\* when the child has no children and else makes a new pattern; continue
processChild ==
    /\ pc = "walking"
    /\ Top.index < Len(Children)
    /\ dom[Child].nodeType # "TEXT"
    /\ visits' = [visits EXCEPT ![Child] = @ + 1]
    /\ IF Len(dom[Child].childNodes) = 0
       THEN /\ stack' = <<[Top EXCEPT !.index = @ + 1]>> \o Tail(stack)
            /\ UNCHANGED lastIndex
       ELSE /\ stack' = <<[node |-> Child, index |-> 0, outer |-> lastIndex],
                          [Top EXCEPT !.index = @ + 1]>> \o Tail(stack)
            /\ lastIndex' = 0
    /\ UNCHANGED <<dom, body, timeZone, lenient, pc, error, runs, last,
                   snapshot>>

\* the child is a text node: split, map with iso8601.test, filter,
\* replaceWith, all on the pattern of the running call
processText ==
    /\ pc = "walking"
    /\ Top.index < Len(Children)
    /\ dom[Child].nodeType = "TEXT"
    /\ FilterAndReplace(
          MapSegments(iso8601Process, Split(iso8601Process, dom[Child].data),
                      1, MapStart(lastIndex)))
    /\ UNCHANGED <<body, timeZone, lenient, runs>>

NextProcess ==
    \/ processDocument
    \/ processEnd
    \/ processChild
    \/ processText

SpecProcess == InitProcess /\ [][NextProcess]_vars

(***************************************************************************)
(* Properties                                                              *)
(***************************************************************************)
\* the text a replacement node stands for: a marker's title, a text
\* node's data
Underlying(id) == IF IsMarker(dom[id]) THEN dom[id].title ELSE dom[id].data

\* the text the first k nodes of the last replacement stand for
UnderlyingUpTo(k) == Concat([i \in 1..k |-> Underlying(last.repl[i])])

\* the loop body has run on a text node
Visited == last.orig # Null

\* and has replaced it
Replaced == Visited /\ ~last.threw

\* the string value of that text node
Original == dom[last.orig].data

\* C1: content preservation: for every text node nodeWalker replaces, the
\* titles of the marker spans and the data of the plain text nodes that
\* replace it, concatenated in order, are the text node's string value.
ContentPreserved == Replaced => UnderlyingUpTo(Len(last.repl)) = Original

\* a text with literal text and a match has been replaced by several nodes
ContentPreservedWitness ==
    /\ Replaced
    /\ Len(last.repl) >= 2
    /\ \E k \in 1..Len(last.repl) : IsMarker(dom[last.repl[k]])
    /\ \E k \in 1..Len(last.repl) : ~IsMarker(dom[last.repl[k]])

\* where the text of the k-th node of the last replacement starts in the
\* replaced text
OffsetOf(k) == Len(UnderlyingUpTo(k - 1)) + 1

\* C2: round-trip traceability: every marker span in the tree has a title
\* that the pattern matches from its first to its last character and a
\* visible text equal to the renderer applied to that title; the title of a
\* marker produced by a replacement is, character for character, the
\* substring of the replaced text that the pattern matched at the marker's
\* place.
Traceable ==
    /\ \A id \in InTree : IsMarker(dom[id]) =>
          /\ MatchEnd(iso8601, dom[id].title, 1) = Len(dom[id].title) + 1
          /\ TextContent(dom, id) = localIso8601String(dom[id].title).value
    /\ Replaced => \A k \in 1..Len(last.repl) : IsMarker(dom[last.repl[k]]) =>
          /\ MatchEnd(iso8601, Original, OffsetOf(k))
               = OffsetOf(k) + Len(dom[last.repl[k]].title)
          /\ Substring(Original, OffsetOf(k),
                       OffsetOf(k) + Len(dom[last.repl[k]].title))
               = dom[last.repl[k]].title

\* a marker span that stands after literal text of the replaced node is
\* in the tree
TraceableWitness ==
    /\ Replaced
    /\ \E k \in 2..Len(last.repl) :
          IsMarker(dom[last.repl[k]]) /\ last.repl[k] \in InTree

(***************************************************************************)
(* The timestamp shape, stated on whole strings: four digits, '-', two     *)
(* digits, '-', two digits, a run of characters of run, 'Z'.               *)
(***************************************************************************)
RunChars == {":", ".", "T"} \cup Digit

RunCharsWithDash == RunChars \cup {"-"}

IsShape(w, run) ==
    /\ Len(w) >= 11
    /\ \A i \in {1, 2, 3, 4, 6, 7, 9, 10} : w[i] \in Digit
    /\ w[5] = "-"
    /\ w[8] = "-"
    /\ w[Len(w)] = "Z"
    /\ \A i \in 11..(Len(w) - 1) : w[i] \in run

\* the positions just after the strings of the shape that start at i in s
ShapeEnds(s, i, run) ==
    {j \in (i + 11)..(Len(s) + 1) : IsShape(Substring(s, i, j), run)}

ContainsShape(s, run) == \E i \in 1..Len(s) : ShapeEnds(s, i, run) # {}

RECURSIVE Occurrences(_, _, _)
\* the occurrences of the shape in s from position i on, left to right,
\* none overlapping an earlier one, each as <<start, end>>
Occurrences(s, i, run) ==
    IF i > Len(s) THEN <<>>
    ELSE IF ShapeEnds(s, i, run) = {} THEN Occurrences(s, i + 1, run)
    ELSE LET j == CHOOSE e \in ShapeEnds(s, i, run) : TRUE
         IN  <<<<i, j>>>> \o Occurrences(s, j, run)

\* the literal text before occurrence k of occ (after the last one for
\* k = Len(occ) + 1)
LiteralBefore(s, occ, k) ==
    Substring(s, IF k = 1 THEN 1 ELSE occ[k - 1][2],
                 IF k > Len(occ) THEN Len(s) + 1 ELSE occ[k][1])

\* what a replacement node shows to the claims: its kind and its text
Observed(id) ==
    [marker |-> IsMarker(dom[id]), text |-> Underlying(id)]

\* the nodes that should replace a text: for every occurrence the literal
\* text before it, when there is some, and a marker; then the literal text
\* after the last occurrence, when there is some
Expected(s, occ) ==
    LET lit(k) == IF LiteralBefore(s, occ, k) = <<>> THEN <<>>
                  ELSE <<[marker |-> FALSE, text |-> LiteralBefore(s, occ, k)]>>
        mark(k) == <<[marker |-> TRUE,
                      text |-> Substring(s, occ[k][1], occ[k][2])]>>
    IN  Concat([k \in 1..Len(occ) |-> lit(k) \o mark(k)]) \o lit(Len(occ) + 1)

ExpectedOf(s) == Expected(s, Occurrences(s, 1, RunChars))

\* s has n >= 2 occurrences, each denoting a valid instant
SeveralStamps(s, occ) ==
    /\ Len(occ) >= 2
    /\ \A k \in 1..Len(occ) :
          DateParse(Substring(s, occ[k][1], occ[k][2])).valid

NoEmptyReplacement ==
    \A id \in InTree :
       (dom[id].created /\ dom[id].nodeType = "TEXT") => Len(dom[id].data) > 0

\* a text that is exactly one match has been replaced by its marker alone,
\* the two empty segments around it having been mapped and dropped
NoEmptyReplacementWitness ==
    /\ Replaced
    /\ Original = TS1
    /\ Len(last.repl) = 1
    /\ \E id \in 1..Len(dom) :
          dom[id].created /\ dom[id].nodeType = "TEXT" /\ dom[id].data = <<>>

\* a rendered string carries a zone: a sign after its date, or a Z
HasZoneIndicator(v) ==
    \E i \in 1..Len(v) : v[i] \in {"+", "Z"} \/ (v[i] = "-" /\ i > 10)

\* C5: zone explicitness: the visible text of every marker span, which is
\* what localIso8601String returned for a valid instant, carries an
\* explicit time-zone indicator, for every reader time zone, UTC included.
ZoneExplicit ==
    \A id \in InTree :
       IsMarker(dom[id]) => HasZoneIndicator(TextContent(dom, id))

\* C6: an unparseable match is recovered locally: the renderer returns a
\* fallback string instead of raising, so no RangeError leaves
\* localizeIsoStrings.
RendererNeverRaises == error # "RangeError"

\* C7: a missing root is a no-op: with document.body null no exception
\* reaches the caller of localizeIsoStrings.
MissingRootNoOp == body = Null => error = "none"

\* the pattern matches exactly the strings of the shape with the run
\* drawn from run: every marker produced by the last replacement has such
\* a title, and no plain text node it produced contains such a string
MatchesExactly(run) ==
    Replaced => \A k \in 1..Len(last.repl) :
       IF IsMarker(dom[last.repl[k]])
       THEN IsShape(dom[last.repl[k]].title, run)
       ELSE ~ContainsShape(dom[last.repl[k]].data, run)

VisitedOnce ==
    runs = 1 => \A id \in 1..Len(dom) :
       IF dom[id].created THEN visits[id] = 0
       ELSE visits[id] <= 1 /\ (pc = "done" => visits[id] = 1)

\* C10: repeated invocation is idempotent: when a second call of
\* localizeIsoStrings has returned, the tree shows what it showed when the
\* first call ended: the same node kinds, texts, marker titles and marker
\* texts in the same order.
Idempotent ==
    (runs = 2 /\ pc = "done" /\ body # Null)
       => snapshot = <<Serialize(dom, body)>>

\* the segments split gives for the text node the loop body of process ran
\* on last
Segments == Split(iso8601Process, Original)

InsideMarker(id) ==
    \E m \in InTree :
       /\ IsMarker(dom[m])
       /\ \E k \in 1..Len(dom[m].childNodes) : dom[m].childNodes[k] = id

\* C12: completeness of the rewrite: when localizeIsoStrings has returned,
\* no text node of the document outside the marker spans contains a
\* substring the pattern matches.
RewriteComplete ==
    pc = "done" =>
       \A id \in InTree :
          (dom[id].nodeType = "TEXT" /\ ~InsideMarker(id))
             => SearchFrom(iso8601, dom[id].data, 1) = 0

RECURSIVE TreeDepth(_, _)
\* the number of nodes on the longest path from node id down to a leaf
TreeDepth(d, id) ==
    LET kids == d[id].childNodes
        below == {TreeDepth(d, kids[k]) : k \in 1..Len(kids)}
    IN  IF below = {} THEN 1
        ELSE 1 + CHOOSE h \in below : \A g \in below : g <= h

\* the number of matches of the pattern in s
Matches(s) == (Len(Split(iso8601, s)) - 1) \div 2

RECURSIVE Sum(_)
\* the sum of a sequence of numbers
Sum(ns) == IF ns = <<>> THEN 0 ELSE Head(ns) + Sum(Tail(ns))

RECURSIVE Work(_, _)
\* an upper bound of the steps nodeWalker still takes for a child id that
\* its loop has not reached: one for the child itself; for an element with
\* children those of its children and the return of its call; for a text
\* with m matches at most m marker spans (three steps each: the span, its
\* text, the return) and m + 1 literal texts, of which the loop passes the
\* first while it replaces
Work(d, id) ==
    IF d[id].nodeType = "TEXT" THEN 1 + 4 * Matches(d[id].data)
    ELSE IF d[id].childNodes = <<>> THEN 1
    ELSE 2 + Sum([k \in 1..Len(d[id].childNodes) |->
                    Work(d, d[id].childNodes[k])])

\* the work a frame f stands for in the tree d: its return and the children
\* after its index
FrameWork(d, f) ==
    1 + Sum([k \in 1..Len(d[f.node].childNodes) |->
               IF k > f.index THEN Work(d, d[f.node].childNodes[k]) ELSE 0])

\* an upper bound of the steps a call still takes that is at p with the
\* frames st in the tree d
PotentialOf(d, st, p) ==
    IF p # "walking" THEN 0
    ELSE Sum([i \in 1..Len(st) |-> FrameWork(d, st[i])])

\* that bound for the running call
Potential == PotentialOf(dom, stack, pc)

\* the nodeWalker calls that are running are nested no deeper than the
\* tree, marker spans inserted so far included
DepthBounded == body # Null => Len(stack) <= TreeDepth(dom, body)

\* C13: termination: every step of a running call of localizeIsoStrings
\* lowers a natural number, Potential, although nodeWalker replaces
\* children of the live list it iterates; so every loop and every call
\* ends after at most that many steps.  The nesting of nodeWalker calls
\* never exceeds the depth of the tree with the marker spans inserted.
Terminates ==
    /\ [][pc = "walking" => PotentialOf(dom', stack', pc') < Potential]_vars
    /\ []DepthBounded

\* nodeWalker is running inside a marker span that it has inserted into the
\* list it is iterating
TerminatesWitness ==
    /\ pc = "walking"
    /\ Len(stack) >= 2
    /\ IsMarker(dom[Top.node])
    /\ dom[Top.node].created

====
